---- MODULE Spec2Model ----
(***************************************************************************)
(* One batch of the file relay bot: _process_urls (main.py) calling        *)
(* DirectLinkService.process, which downloads every URL in turn with       *)
(* download_file / _stream_download, archives the files with create_zip    *)
(* when more than one was downloaded, and hands the result to the upload.  *)
(* The session directory is modelled as a flag (it exists or not) plus a   *)
(* function from the file names in it to their sizes in bytes.             *)
(* Sizes and times are counted in small units; the environment (HTTP       *)
(* server, file system, message surface) is a nondeterministic choice.     *)
(***************************************************************************)
EXTENDS Integers, Sequences, FiniteSets, TLC

\* ------------------------------------------------------------------ bounds
MaxUrls == 3        \* longest URL list of a batch
MaxRetries == 3     \* largest configured retry count (MAX_RETRIES is read from the environment)
MaxBody == 3        \* largest response body and largest declared Content-Length
MaxZipSize == 3     \* largest size of a written archive
MaxAttempts == 4    \* most fetch attempts of a batch: Len(urls) * retries
MaxTime == 7        \* last reading of the monotonic clock in the tracker scenario
MaxCalls == 5       \* most calls made on the tracker in the tracker scenario
ConcUrls == 2       \* the URLs of each batch in the scenario of concurrent batches
MaxName == 6        \* longest name given to sanitize_filename

\* ------------------------------------------------------- program constants
MAX_FILE_SIZE == 2              \* config.py: 50 MiB, here 2 units
CHUNK_SIZE == 2                 \* config.py: 8 KiB, here 2 units
TELEGRAM_FILE_LIMIT == 2        \* config.py: 50 MiB, the same as MAX_FILE_SIZE
PROGRESS_UPDATE_INTERVAL == 3   \* config.py: 3.0 seconds
BYTES_PER_MB == 32              \* progress.py: 1_048_576, here 32 units
NAME_LIMIT == 4                 \* file_utils.py: 200 characters, here 4
STEM_KEEP == 2                  \* file_utils.py: 180 characters, here 2

\* ------------------------------------------------------------------- names
\* A file name: base, the numeric suffixes appended by the collision loop,
\* and the extension.  "a_1_2.mp4" is [base |-> "a", sfx |-> <<1, 2>>, ext |-> "mp4"].
FileName(b, s, e) == [base |-> b, sfx |-> s, ext |-> e]

\* None, as returned by download_file and process.
NoPath == FileName("", <<>>, "")

\* The file names the URLs of a batch yield (_extract_filename).
UrlNames == {FileName("a", <<>>, "mp4"), FileName("b", <<>>, "pdf")}

\* The session id of the batch (uuid4().hex[:8]) and "no session yet".
Sid == "s1"
NoSession == ""

VIDEO_EXTENSIONS == {"mp4", "mkv", "avi", "mov", "webm"}

is_video_file(name) == name.ext \in VIDEO_EXTENSIONS

\* temp_dir / f"files_{session_id}.zip"
ZipPath(sid) == FileName("files_" \o sid, <<>>, "zip")

Min(a, b) == IF a < b THEN a ELSE b

RECURSIVE Pow2(_)
Pow2(n) == IF n = 0 THEN 1 ELSE 2 * Pow2(n - 1)

\* ------------------------------------------------------------- file system
NoFiles == [n \in {} |-> 0]

WriteFile(f, p, size) == [q \in (DOMAIN f) \cup {p} |-> IF q = p THEN size ELSE f[q]]

Unlink(f, p) == [q \in (DOMAIN f) \ {p} |-> f[q]]

Restrict(f, keep) == [q \in (DOMAIN f) \cap keep |-> f[q]]

\* dest_dir / f"{original_stem}_{counter}{dest_path.suffix}"
Candidate(name, counter) == FileName(name.base, Append(name.sfx, counter), name.ext)

\* Mutant: no collision loop, the name is used as it is.
ChoosePathAsGiven(name, counter, files) == name

\* The collision loop of download_file: the first of name, name_1, name_2, ...
\* that does not exist in the directory.
RECURSIVE ChoosePath(_, _, _)
ChoosePath(name, counter, files) ==
    LET path == IF counter = 0 THEN name ELSE Candidate(name, counter)
    IN  IF path \in files THEN ChoosePath(name, counter + 1, files) ELSE path

\* route_urls / classify_url: every URL is classified DIRECT.
classify_url(url) == "direct"

direct_urls(us) == SelectSeq(us, LAMBDA u : classify_url(u) = "direct")

VARIABLES
    urls,          \* the URLs of the batch, each given by the file name it yields
    retries,       \* the retries argument of download_file (MAX_RETRIES)
    pc,            \* the position of the batch
    dirExists,     \* TEMP_DIR/<session_id> exists
    fs,            \* the files of the session directory: name -> size
    session_id,    \* _process_urls' session_id (NoSession: None)
    idx,           \* process: the index of the URL being downloaded
    downloaded,    \* process: the list of downloaded paths
    dest_path,     \* download_file: the destination path
    attempt,       \* download_file: the attempt number
    resp,          \* _stream_download: the response of the current attempt
    dl_bytes,      \* _stream_download: the counter `downloaded`
    outcome,       \* how the last attempt ended
    file_path,     \* what download_file returned
    result,        \* what process returned (NoPath: None)
    tr_due,        \* tracker: now - _last_update >= update_interval
    tr_last_text,  \* tracker: _last_text
    lastEdit,      \* the last edit attempted on the status message
    tr_sent,       \* tracker: the text of its last call of message.edit_text
    tr_repeat,     \* tracker: a call of message.edit_text carried the text of the call before it
    \* history
    cleanupCalls,  \* the calls of cleanup_temp_dir
    rmtreeFailed,  \* shutil.rmtree raised in cleanup_temp_dir
    dlLog,         \* current download: 0 for a fetch attempt, d > 0 for a sleep of d seconds
    overOnly,      \* current download: every response so far had a body above max_size
    kinds,         \* current download: how its attempts so far ended
    results,       \* what download_file returned for the URLs so far
    dlCalls,       \* how often download_file was called for each URL
    zipEntries,    \* the entries of the archive written by create_zip
    zipCalls,      \* the calls of create_zip
    keptOriginals, \* the originals create_zip could not delete
    sent,          \* the uploads attempted: mode and size
    raised,        \* where an exception was raised that left process or reached _process_urls' handler
    trProg,        \* current tracker: the byte counts of its last two rendered progress edits
    terminal,      \* for each URL, the terminal renders (complete, error) of its tracker
    order,         \* the URLs download_file was called for, in the order of the calls
    sizes,         \* while the loop runs: the sizes the files of `downloaded` had when returned
    \* one ProgressTracker under an explicit clock
    now,           \* time.monotonic()
    tr_last_update,\* tracker: _last_update
    trCalls,       \* the calls made on the tracker: time and effect
    trFailed,      \* the tracker's last call of message.edit_text raised
    \* two batches running concurrently
    temp,          \* TEMP_DIR: for each session directory, whether it exists and its files
    cpc,           \* the position of each batch
    csid,          \* the session id of each batch
    cdest,         \* download_file of each batch: the destination path
    cdownloaded,   \* process of each batch: the list of downloaded paths
    cidx,          \* process of each batch: the index of the URL in turn
    harm,          \* what a batch did to a directory or file another running batch uses
    \* sanitize_filename applied to a name, and to its own result
    fname,         \* the name given
    once,          \* sanitize_filename(fname)
    twice,         \* sanitize_filename(sanitize_filename(fname))
    applied        \* how often the function has been applied: 0, 1, 2

\* The variables of the batch.
batchVars == <<urls, retries, pc, dirExists, fs, session_id, idx, downloaded, dest_path,
               attempt, resp, dl_bytes, outcome, file_path, result, tr_due, tr_last_text,
               lastEdit, tr_sent, tr_repeat, cleanupCalls, rmtreeFailed, dlLog, overOnly, kinds, results, dlCalls,
               zipEntries, zipCalls, keptOriginals, sent, raised, trProg, terminal, order,
               sizes>>

\* The variables of the tracker under an explicit clock.
clockVars == <<now, tr_last_update, trCalls, trFailed>>

\* The variables of the concurrent batches.
concVars == <<temp, cpc, csid, cdest, cdownloaded, cidx, harm>>

\* The variables of the sanitize_filename scenario.
sanVars == <<fname, once, twice, applied>>

\* The variables the batch does not use.
otherVars == <<clockVars, concVars, sanVars>>

vars == <<batchVars, otherVars>>

\* The tracker's text and what it has passed to the message.
trText == <<tr_last_text, tr_sent, tr_repeat>>

\* ---------------------------------------------------------------- tracker
\* A rendered text: its kind and the numbers it shows.
Text(k, pct, dl, tot) == [k |-> k, pct |-> pct, dl |-> dl, tot |-> tot]

NoText == Text("", 0, 0, 0)

\* f"{x / 1_048_576:.1f}": the tenths of a MB shown for x bytes (round half even).
Tenths(x) ==
    LET q == (10 * x) \div BYTES_PER_MB
        r == (10 * x) % BYTES_PER_MB
    IN  IF 2 * r > BYTES_PER_MB \/ (2 * r = BYTES_PER_MB /\ q % 2 = 1) THEN q + 1 ELSE q

\* The text ProgressTracker.update renders for (downloaded, total).
ProgressText(d, total) ==
    IF total > 0
    THEN Text("progress", Min((d * 100) \div total, 100), Tenths(d), Tenths(total))
    ELSE Text("progress", 0, Tenths(d), 0)

CompleteText == Text("complete", 0, 0, 0)

ErrorText == Text("dl_error", 0, 0, 0)

\* await self.message.edit_text(text, ...) in the try block of _edit: the edit
\* is attempted; if it raises, the exception is logged and swallowed.
EditText(text) ==
    /\ tr_sent' = text
    /\ tr_repeat' = (tr_repeat \/ tr_sent = text)
    /\ lastEdit' = text.k

\* Mutant: the edit is made only when the interval has passed.
TrackerEditIfDue(text) ==
    IF text = tr_last_text \/ ~tr_due
    THEN UNCHANGED <<trText, lastEdit>>
    ELSE /\ tr_last_text' = text
         /\ EditText(text)

\* Mutant: the text is not compared with the last one.
TrackerEditAlways(text) ==
    /\ tr_last_text' = text
    /\ EditText(text)

\* ProgressTracker._edit: skipped when the text equals the last one; the edit
\* itself may fail, which is swallowed.
TrackerEdit(text) ==
    IF text = tr_last_text
    THEN UNCHANGED <<trText, lastEdit>>
    ELSE /\ tr_last_text' = text
         /\ EditText(text)

\* ProgressTracker.update(downloaded, total), called when the interval has
\* (due) or has not passed since the last accepted update.
TrackerUpdate(due, d, total) ==
    IF ~due
    THEN /\ tr_due' = FALSE
         /\ UNCHANGED <<trText, lastEdit>>
    ELSE /\ tr_due' = (PROGRESS_UPDATE_INTERVAL <= 0)
         /\ TrackerEdit(ProgressText(d, total))

\* The clock moves on: an interval that has passed stays passed.
Later(due) == IF due THEN {TRUE} ELSE {FALSE, TRUE}

\* ------------------------------------------------------------------- state
NoResp == [status |-> 0, cl |-> 0, body |-> 0]

UrlLists == UNION {[1..n -> UrlNames] : n \in 1..MaxUrls}

\* No tracker scenario is running: the batch reads the clock only through tr_due.
ClockIdle ==
    /\ now = 0
    /\ tr_last_update = 0
    /\ trCalls = <<>>
    /\ trFailed = FALSE

BatchInit ==
    /\ urls \in UrlLists
    /\ retries \in {r \in 0..MaxRetries : Len(urls) * r <= MaxAttempts}
    /\ pc = "start"
    /\ dirExists = FALSE
    /\ fs = NoFiles
    /\ session_id = NoSession
    /\ idx = 0
    /\ downloaded = <<>>
    /\ dest_path = NoPath
    /\ attempt = 0
    /\ resp = NoResp
    /\ dl_bytes = 0
    /\ outcome = ""
    /\ file_path = NoPath
    /\ result = NoPath
    /\ tr_due = FALSE
    /\ tr_last_text = NoText
    /\ tr_sent = NoText
    /\ tr_repeat = FALSE
    /\ lastEdit = "starting"
    /\ cleanupCalls = 0
    /\ rmtreeFailed = FALSE
    /\ dlLog = <<>>
    /\ overOnly = TRUE
    /\ kinds = {}
    /\ results = <<>>
    /\ dlCalls = [i \in 1..Len(urls) |-> 0]
    /\ trProg = <<>>
    /\ terminal = [i \in 1..Len(urls) |-> <<>>]
    /\ order = <<>>
    /\ sizes = <<>>
    /\ zipEntries = {}
    /\ zipCalls = 0
    /\ keptOriginals = {}
    /\ sent = <<>>
    /\ raised = ""

\* uuid4().hex[:8]: the session ids two batches may draw.
SessionIds == {"s1", "s2"}

Batches == {1, 2}

\* Mutant: the directory does not depend on the session id.
SessionDirOfRoot(sid) == "tmp"

\* TEMP_DIR / session_id
SessionDir(sid) == "tmp/" \o sid

NoDir == [exists |-> FALSE, files |-> NoFiles]

\* No scenario of concurrent batches is running.
ConcIdle ==
    /\ temp = [d \in {SessionDir(x) : x \in SessionIds} |-> NoDir]
    /\ cpc = [b \in Batches |-> "idle"]
    /\ csid = [b \in Batches |-> NoSession]
    /\ cdest = [b \in Batches |-> NoPath]
    /\ cdownloaded = [b \in Batches |-> <<>>]
    /\ cidx = [b \in Batches |-> 0]
    /\ harm = {}

\* No sanitize_filename scenario is running.
SanIdle ==
    /\ fname = <<>>
    /\ once = <<>>
    /\ twice = <<>>
    /\ applied = 0

Init ==
    /\ BatchInit
    /\ ClockIdle
    /\ ConcIdle
    /\ SanIdle

\* The variables of one download_file call and of its tracker.
dlVars == <<dest_path, attempt, resp, dl_bytes, outcome, file_path, dlLog, overOnly,
            kinds>>
trVars == <<tr_due, trText>>
histVars == <<cleanupCalls, rmtreeFailed, results, dlCalls, zipEntries, zipCalls,
              keptOriginals, sent, raised>>
loopHist == <<trProg, terminal, order, sizes>>

\* cleanup_temp_dir(session_id): nothing when the directory is missing;
\* otherwise shutil.rmtree, whose failure is logged and swallowed and may
\* leave any part of the tree behind.
cleanup_temp_dir(rm_ok, left) ==
    /\ cleanupCalls' = cleanupCalls + 1
    /\ IF ~dirExists
       THEN UNCHANGED <<dirExists, fs, rmtreeFailed>>
       ELSE IF rm_ok
            THEN /\ dirExists' = FALSE
                 /\ fs' = NoFiles
                 /\ UNCHANGED rmtreeFailed
            ELSE /\ dirExists' = TRUE
                 /\ fs' = Restrict(fs, left)
                 /\ rmtreeFailed' = TRUE

\* The outcomes of shutil.rmtree on the session directory.
RmtreeOutcomes == {<<TRUE, {}>>} \cup {<<FALSE, left>> : left \in SUBSET (DOMAIN fs)}

\* ------------------------------------------------------------ _process_urls
\* _process_urls up to the call of process: the URLs are routed; with no
\* direct URL the batch ends with "No supported download URLs found".
Start ==
    /\ pc = "start"
    /\ IF direct_urls(urls) = <<>>
       THEN /\ lastEdit' = "no_supported"
            /\ pc' = "finally"
       ELSE /\ pc' = "process"
            /\ UNCHANGED lastEdit
    /\ UNCHANGED <<urls, retries, dirExists, fs, session_id, idx, downloaded>>
    /\ UNCHANGED <<dlVars, trVars, histVars, result>>
    /\ UNCHANGED loopHist
    /\ UNCHANGED otherVars

\* process: session_id = uuid4().hex[:8]; temp_dir = get_temp_dir(session_id).
ProcessBegin ==
    /\ pc = "process"
    /\ dirExists' = TRUE
    /\ fs' = NoFiles
    /\ idx' = 1
    /\ downloaded' = <<>>
    /\ pc' = "loop"
    /\ UNCHANGED <<urls, retries, session_id, lastEdit, result>>
    /\ UNCHANGED <<dlVars, trVars, histVars>>
    /\ UNCHANGED loopHist
    /\ UNCHANGED otherVars

\* Mutant: the edit is not attempted.
SafeEditNotAttempted(kind) == UNCHANGED lastEdit

\* ------------------------------------------------------------------ process
\* self._safe_edit / _safe_edit: the edit is attempted; its failure is swallowed.
SafeEdit(kind) == lastEdit' = kind

\* The for loop of process, one URL: the "Downloading file i/n" edit, a new
\* ProgressTracker, and download_file up to its first attempt (the file name,
\* the collision loop).  The clock's reference point is undefined, so the
\* new tracker (_last_update = 0.0) may be of any age.
LoopNext ==
    /\ pc = "loop"
    /\ idx <= Len(urls)
    /\ SafeEdit("downloading")
    /\ tr_last_text' = NoText
    /\ tr_sent' = NoText
    /\ tr_repeat' = FALSE
    /\ tr_due' \in BOOLEAN
    /\ dlCalls' = [dlCalls EXCEPT ![idx] = @ + 1]
    /\ dest_path' = ChoosePath(urls[idx], 0, DOMAIN fs)
    /\ attempt' = 1
    /\ resp' = NoResp
    /\ dl_bytes' = 0
    /\ outcome' = ""
    /\ file_path' = NoPath
    /\ dlLog' = <<>>
    /\ overOnly' = TRUE
    /\ kinds' = {}
    /\ pc' = IF 1 <= retries THEN "attempt" ELSE "exhausted"
    /\ UNCHANGED <<urls, retries, dirExists, fs, session_id, idx, downloaded, result>>
    /\ UNCHANGED <<cleanupCalls, rmtreeFailed, results, zipEntries, zipCalls,
                   keptOriginals, sent, raised>>
    /\ trProg' = <<>>
    /\ order' = Append(order, idx)
    /\ UNCHANGED <<terminal, sizes>>
    /\ UNCHANGED otherVars

\* ------------------------------------------------------------ download_file
\* The pre-flight check of _stream_download on the declared Content-Length
\* (0 when the header is absent).
PreflightRejects(content_length, max_size) ==
    content_length # 0 /\ content_length > max_size

\* Mutant: the streaming check lets one byte above the limit pass.
StreamRejectsAboveLimit(received, max_size) == received > max_size + 1

\* Mutant: the streaming check rejects at the limit itself.
StreamRejectsAtLimit(received, max_size) == received >= max_size

\* The streaming check of _stream_download on the bytes received so far.
StreamRejects(received, max_size) == received > max_size

\* Mutant: after the last failed attempt download_file waits without end.
AfterFailedAttemptWaits(att, n) == IF att < n THEN "backoff" ELSE "waiting"

\* Mutant: a failed attempt is the last one.
AfterFailedAttemptGivesUp(att, n) == "exhausted"

\* The retry loop of download_file after an attempt that did not return a
\* path: another attempt after the back-off sleep while attempts remain.
AfterFailedAttempt(att, n) == IF att < n THEN "backoff" ELSE "exhausted"

\* Mutant: the exponent one too small (1, 2, 4, ...).
BackoffDelayFromOne(att) == Pow2(att - 1)

\* 2 ** attempt
BackoffDelay(att) == Pow2(att)

\* Mutant: the file is opened for appending ("ab").
OpenForAppend(f, p) == IF p \in DOMAIN f THEN f ELSE WriteFile(f, p, 0)

\* open(dest_path, "wb"): the file is created, or cut to no bytes.
OpenForWrite(f, p) == WriteFile(f, p, 0)

\* fp.write(chunk): the open file grows by the chunk.
AfterWrite(f, p, chunk) == WriteFile(f, p, f[p] + chunk)

\* The responses a server may give: a status, a declared Content-Length
\* (0: none) and a body; the declared length need not be the body's.  Of a
\* response that is not 200 only the status is read.
Responses ==
    [status : {200}, cl : 0..MaxBody, body : 0..MaxBody] \cup {[status |-> 404, cl |-> 0, body |-> 0]}

\* One attempt begins (_stream_download): the request fails before a response
\* (timeout, connection error), or a response arrives and passes or fails
\* the status check and the pre-flight size check; then the file is opened.
StartAttempt ==
    /\ pc = "attempt"
    /\ dlLog' = Append(dlLog, 0)
    /\ \/ /\ resp' = NoResp
          /\ outcome' = "error"
          /\ pc' = AfterFailedAttempt(attempt, retries)
          /\ UNCHANGED <<fs, dl_bytes, overOnly>>
       \/ \E r \in Responses :
             /\ resp' = r
             /\ overOnly' = (overOnly /\ (r.status = 200 => r.body > MAX_FILE_SIZE))
             /\ IF r.status # 200
                THEN /\ outcome' = "status"
                     /\ pc' = AfterFailedAttempt(attempt, retries)
                     /\ UNCHANGED <<fs, dl_bytes>>
                ELSE IF PreflightRejects(r.cl, MAX_FILE_SIZE)
                THEN /\ outcome' = "preflight"
                     /\ pc' = AfterFailedAttempt(attempt, retries)
                     /\ UNCHANGED <<fs, dl_bytes>>
                ELSE /\ outcome' = ""
                     /\ fs' = OpenForWrite(fs, dest_path)
                     /\ dl_bytes' = 0
                     /\ pc' = "stream"
    /\ kinds' = IF outcome' = "" THEN kinds ELSE kinds \cup {outcome'}
    /\ UNCHANGED <<urls, retries, dirExists, session_id, idx, downloaded, dest_path,
                   attempt, file_path, result, lastEdit>>
    /\ UNCHANGED <<trVars, histVars>>
    /\ UNCHANGED loopHist
    /\ UNCHANGED otherVars

\* The last two entries of a log.
LastTwo(q) == IF Len(q) <= 2 THEN q ELSE SubSeq(q, Len(q) - 1, Len(q))

\* The outcomes of Path.unlink: done, or an OSError.
UnlinkOutcomes == {"ok", "raises"}

\* One round of the chunk loop of _stream_download, some time later: the next chunk arrives and is counted, then rejected
\* (the partial file is unlinked) or written and reported to the tracker; or
\* the body has ended and the path is returned; or the stream raises.
ReadChunk ==
    /\ pc = "stream"
    /\ \/ \E c \in 1..Min(CHUNK_SIZE, resp.body - dl_bytes), due \in Later(tr_due) :
             /\ dl_bytes' = dl_bytes + c
             /\ IF StreamRejects(dl_bytes + c, MAX_FILE_SIZE)
                THEN /\ \E u \in UnlinkOutcomes :
                           IF u = "ok"
                           THEN fs' = Unlink(fs, dest_path) /\ outcome' = "overflow"
                           ELSE fs' = fs /\ outcome' = "error"
                     /\ pc' = AfterFailedAttempt(attempt, retries)
                     /\ tr_due' = due
                     /\ UNCHANGED <<trText, lastEdit, trProg>>
                ELSE /\ fs' = AfterWrite(fs, dest_path, c)
                     /\ TrackerUpdate(due, dl_bytes + c, resp.cl)
                     /\ trProg' = IF tr_last_text' # tr_last_text
                                   THEN LastTwo(Append(trProg, dl_bytes + c))
                                   ELSE trProg
                     /\ pc' = "stream"
                     /\ UNCHANGED outcome
             /\ UNCHANGED file_path
       \/ /\ dl_bytes = resp.body
          /\ outcome' = "ok"
          /\ file_path' = dest_path
          /\ pc' = "dl_returned"
          /\ UNCHANGED <<fs, dl_bytes, tr_due, trText, lastEdit, trProg>>
       \/ /\ outcome' = "error"
          /\ pc' = AfterFailedAttempt(attempt, retries)
          /\ UNCHANGED <<fs, dl_bytes, file_path, tr_due, trText, lastEdit, trProg>>
    /\ kinds' = IF outcome' = "" THEN kinds ELSE kinds \cup {outcome'}
    /\ UNCHANGED <<urls, retries, dirExists, session_id, idx, downloaded, dest_path,
                   attempt, resp, result, dlLog, overOnly>>
    /\ UNCHANGED histVars
    /\ UNCHANGED <<terminal, order, sizes>>
    /\ UNCHANGED otherVars

\* await asyncio.sleep(2 ** attempt), then the next attempt.
Backoff ==
    /\ pc = "backoff"
    /\ dlLog' = Append(dlLog, BackoffDelay(attempt))
    /\ tr_due' \in IF BackoffDelay(attempt) >= PROGRESS_UPDATE_INTERVAL
                    THEN {TRUE} ELSE Later(tr_due)
    /\ attempt' = attempt + 1
    /\ resp' = NoResp
    /\ dl_bytes' = 0
    /\ outcome' = ""
    /\ pc' = "attempt"
    /\ UNCHANGED <<urls, retries, dirExists, fs, session_id, idx, downloaded, dest_path,
                   file_path, result, trText, lastEdit, overOnly, kinds>>
    /\ UNCHANGED histVars
    /\ UNCHANGED loopHist
    /\ UNCHANGED otherVars

\* Mutant: the partial file is left in place.
AfterExhaustionKeepsFile(f, p) == f

\* What download_file leaves at dest_path when every attempt has failed:
\* dest_path.unlink(missing_ok=True).
AfterExhaustion(f, p) == Unlink(f, p)

\* The locals of a download_file call that is over.
DropLocals ==
    /\ dest_path' = NoPath
    /\ attempt' = 0
    /\ resp' = NoResp
    /\ dl_bytes' = 0
    /\ outcome' = ""
    /\ file_path' = NoPath
    /\ dlLog' = <<>>
    /\ overOnly' = TRUE
    /\ kinds' = {}
    /\ trProg' = <<>>

\* All attempts failed: the partial file is removed and None returned; an
\* OSError of unlink leaves download_file and the loop of process.
Exhausted ==
    /\ pc = "exhausted"
    /\ \E u \in UnlinkOutcomes :
          IF u = "ok"
          THEN /\ fs' = AfterExhaustion(fs, dest_path)
               /\ file_path' = NoPath
               /\ pc' = "dl_returned"
               /\ UNCHANGED <<dest_path, attempt, resp, dl_bytes, outcome, dlLog, overOnly,
                              kinds, trProg, trVars, raised>>
          ELSE /\ raised' = "process"
               /\ pc' = "proc_except"
               /\ DropLocals
               /\ tr_due' = FALSE
               /\ UNCHANGED <<fs, trText>>
    /\ UNCHANGED <<urls, retries, dirExists, session_id, idx, downloaded, result, lastEdit>>
    /\ UNCHANGED <<cleanupCalls, rmtreeFailed, results, dlCalls, zipEntries,
                   zipCalls, keptOriginals, sent>>
    /\ UNCHANGED <<terminal, order, sizes>>
    /\ UNCHANGED otherVars

\* Mutant: a download that returned None ends the loop.
NextIndexStopsOnNone(i, path, n) == IF path = NoPath THEN n + 1 ELSE i + 1

\* Mutant: the loop leaves out every other URL.
NextIndexSkipsOne(i, path, n) == i + 2

\* The loop of process goes on with the next URL, whatever download_file
\* returned for this one.
NextIndex(i, path, n) == i + 1

\* Back in the loop of process: a returned path is appended to `downloaded`
\* and the tracker renders complete; on None the tracker renders the error.
DownloadReturned ==
    /\ pc = "dl_returned"
    /\ results' = Append(results, file_path)
    /\ IF file_path # NoPath
       THEN /\ downloaded' = Append(downloaded, file_path)
            /\ sizes' = Append(sizes, fs[file_path])
            /\ TrackerEdit(CompleteText)
       ELSE /\ downloaded' = downloaded
            /\ sizes' = sizes
            /\ TrackerEdit(ErrorText)
    /\ terminal' = IF tr_last_text' # tr_last_text
                   THEN [terminal EXCEPT ![idx] = Append(@, tr_last_text'.k)]
                   ELSE terminal
    /\ idx' = NextIndex(idx, file_path, Len(urls))
    /\ pc' = "loop"
    /\ DropLocals
    /\ tr_due' = FALSE
    /\ UNCHANGED <<urls, retries, dirExists, fs, session_id, result>>
    /\ UNCHANGED <<cleanupCalls, rmtreeFailed, dlCalls, zipEntries, zipCalls,
                   keptOriginals, sent, raised>>
    /\ UNCHANGED order
    /\ UNCHANGED otherVars

\* ------------------------------------------------------------------ zipper
Range(q) == {q[i] : i \in 1..Len(q)}

\* create_zip: the entries written, one for every input file that exists.
ZipContents(files, f) == {p \in Range(files) : p \in DOMAIN f}

\* Mutant: the originals are not removed.
AfterZipKeepsOriginals(f, files, output_path, size, kept) == WriteFile(f, output_path, size)

\* create_zip: the directory after the archive of `size` bytes is closed and
\* the originals are unlinked, but for those in `kept` whose unlink raised.
AfterZip(f, files, output_path, size, kept) ==
    WriteFile(Restrict(f, ((DOMAIN f) \ Range(files)) \cup kept), output_path, size)

\* Mutant: each original is unlinked as soon as it is added to the archive.
AfterZipFailureDeletesAdded(f, files, output_path, size) ==
    WriteFile(Restrict(f, (DOMAIN f) \ {files[1]}), output_path, size)

\* create_zip: the directory when writing the archive raised: the archive
\* file as far as written; the loop that unlinks the originals was not reached.
AfterZipFailure(f, files, output_path, size) == WriteFile(f, output_path, size)

\* Mutant: a single file is archived too.
ResultBranchZipsOne(n) == IF n = 0 THEN "nothing" ELSE "zip"

\* The branch process takes on the number of downloaded files.
ResultBranch(n) == IF n = 0 THEN "nothing" ELSE IF n = 1 THEN "single" ELSE "zip"

\* process after the loop, nothing downloaded: the failure is reported, the
\* session directory removed and None returned.
NothingDownloaded ==
    /\ pc = "loop"
    /\ idx > Len(urls)
    /\ ResultBranch(Len(downloaded)) = "nothing"
    /\ SafeEdit("no_files")
    /\ \E o \in RmtreeOutcomes : cleanup_temp_dir(o[1], o[2])
    /\ result' = NoPath
    /\ pc' = "pu_result"
    /\ UNCHANGED <<urls, retries, session_id, idx, downloaded>>
    /\ UNCHANGED <<dlVars, trVars, results, dlCalls, zipEntries, zipCalls,
                   keptOriginals, sent, raised>>
    /\ UNCHANGED loopHist
    /\ UNCHANGED otherVars

\* process after the loop, one file: it is the result.
SingleFile ==
    /\ pc = "loop"
    /\ idx > Len(urls)
    /\ ResultBranch(Len(downloaded)) = "single"
    /\ result' = downloaded[1]
    /\ pc' = "pu_result"
    /\ UNCHANGED <<urls, retries, dirExists, fs, session_id, idx, downloaded, lastEdit>>
    /\ UNCHANGED <<dlVars, trVars, histVars>>
    /\ sizes' = <<>>
    /\ UNCHANGED <<trProg, terminal, order>>
    /\ UNCHANGED otherVars

\* process after the loop, several files: create_zip writes the archive and
\* unlinks the originals (a failed unlink is logged and swallowed); an error
\* while the archive is written leaves create_zip with the originals in place.
ZipFiles ==
    /\ pc = "loop"
    /\ idx > Len(urls)
    /\ ResultBranch(Len(downloaded)) = "zip"
    /\ SafeEdit("zipping")
    /\ zipCalls' = zipCalls + 1
    /\ \/ \E size \in 1..MaxZipSize, kept \in SUBSET ZipContents(downloaded, fs) :
             /\ zipEntries' = ZipContents(downloaded, fs)
             /\ keptOriginals' = kept
             /\ fs' = AfterZip(fs, downloaded, ZipPath(Sid), size, kept)
             /\ result' = ZipPath(Sid)
             /\ pc' = "pu_result"
             /\ UNCHANGED raised
       \/ \E size \in 0..MaxZipSize :
             /\ fs' = AfterZipFailure(fs, downloaded, ZipPath(Sid), size)
             /\ raised' = "process"
             /\ pc' = "proc_except"
             /\ UNCHANGED <<zipEntries, keptOriginals, result>>
    /\ UNCHANGED <<urls, retries, dirExists, session_id, idx, downloaded>>
    /\ UNCHANGED <<dlVars, trVars, cleanupCalls, rmtreeFailed, results, dlCalls, sent>>
    /\ sizes' = <<>>
    /\ UNCHANGED <<trProg, terminal, order>>
    /\ UNCHANGED otherVars

\* The except clause of process: the session directory is removed and the
\* exception raised again.
ProcExcept ==
    /\ pc = "proc_except"
    /\ \E o \in RmtreeOutcomes : cleanup_temp_dir(o[1], o[2])
    /\ pc' = "pu_except"
    /\ UNCHANGED <<urls, retries, session_id, idx, downloaded, result, lastEdit>>
    /\ UNCHANGED <<dlVars, trVars, results, dlCalls, zipEntries, zipCalls,
                   keptOriginals, sent, raised>>
    /\ UNCHANGED loopHist
    /\ UNCHANGED otherVars

\* ------------------------------------------------- _process_urls, continued
\* Mutant: the gate lets one byte above the limit pass.
TooLargeOffByOne(file_size) == file_size > TELEGRAM_FILE_LIMIT + 1

\* The size gate of _process_urls.
TooLarge(file_size) == file_size > TELEGRAM_FILE_LIMIT

\* process has returned: on None the batch is over; otherwise session_id is
\* taken from the result and the file's size (stat, which may raise) decides
\* between the "too large" report and the upload.
CheckResult ==
    /\ pc = "pu_result"
    /\ IF result = NoPath
       THEN /\ pc' = "finally"
            /\ UNCHANGED <<session_id, lastEdit, raised>>
       ELSE /\ session_id' = Sid
            /\ \/ /\ result \in DOMAIN fs
                  /\ IF TooLarge(fs[result])
                     THEN SafeEdit("too_large") /\ pc' = "finally"
                     ELSE SafeEdit("uploading") /\ pc' = "upload"
                  /\ UNCHANGED raised
               \/ /\ raised' = "after"
                  /\ pc' = "pu_except"
                  /\ UNCHANGED lastEdit
    /\ UNCHANGED <<urls, retries, dirExists, fs, idx, downloaded, result>>
    /\ UNCHANGED <<dlVars, trVars, cleanupCalls, rmtreeFailed, results, dlCalls,
                   zipEntries, zipCalls, keptOriginals, sent>>
    /\ UNCHANGED loopHist
    /\ UNCHANGED otherVars

\* The upload: send_video for a video file, send_document otherwise; open or
\* the send may raise.
Upload ==
    /\ pc = "upload"
    /\ \E o \in {"ok", "open_raises", "send_raises"} :
          /\ sent' = IF o = "open_raises" THEN sent
                     ELSE Append(sent, [mode |-> IF is_video_file(result) THEN "video" ELSE "document",
                                        size |-> fs[result]])
          /\ IF o = "ok"
             THEN SafeEdit("done") /\ pc' = "finally" /\ UNCHANGED raised
             ELSE raised' = "after" /\ pc' = "pu_except" /\ UNCHANGED lastEdit
    /\ UNCHANGED <<urls, retries, dirExists, fs, session_id, idx, downloaded, result>>
    /\ UNCHANGED <<dlVars, trVars, cleanupCalls, rmtreeFailed, results, dlCalls,
                   zipEntries, zipCalls, keptOriginals>>
    /\ UNCHANGED loopHist
    /\ UNCHANGED otherVars

\* The except clause of _process_urls: "An error occurred".
PuExcept ==
    /\ pc = "pu_except"
    /\ SafeEdit("error_occurred")
    /\ pc' = "finally"
    /\ UNCHANGED <<urls, retries, dirExists, fs, session_id, idx, downloaded, result>>
    /\ UNCHANGED <<dlVars, trVars, histVars>>
    /\ UNCHANGED loopHist
    /\ UNCHANGED otherVars

\* Mutants of the guard: the test inverted; the cleanup done unconditionally.
FinallyCleansInverted(sid) == sid = NoSession

FinallyCleansAlways(sid) == TRUE

\* The guard of the finally clause of _process_urls: `if session_id`.
FinallyCleans(sid) == sid # NoSession

\* The finally clause of _process_urls.
Finally ==
    /\ pc = "finally"
    /\ IF FinallyCleans(session_id)
       THEN \E o \in RmtreeOutcomes : cleanup_temp_dir(o[1], o[2])
       ELSE UNCHANGED <<dirExists, fs, cleanupCalls, rmtreeFailed>>
    /\ pc' = "done"
    /\ UNCHANGED <<urls, retries, session_id, idx, downloaded, result, lastEdit>>
    /\ UNCHANGED <<dlVars, trVars, results, dlCalls, zipEntries, zipCalls,
                   keptOriginals, sent, raised>>
    /\ UNCHANGED loopHist
    /\ UNCHANGED otherVars

Next ==
    \/ Start
    \/ ProcessBegin
    \/ LoopNext
    \/ StartAttempt
    \/ ReadChunk
    \/ Backoff
    \/ Exhausted
    \/ DownloadReturned
    \/ NothingDownloaded
    \/ SingleFile
    \/ ZipFiles
    \/ ProcExcept
    \/ CheckResult
    \/ Upload
    \/ PuExcept
    \/ Finally

Spec == Init /\ [][Next]_vars

\* Every await of the batch returns or raises in the end: requests and sends
\* carry timeouts, sleeps are finite.  So a batch that can take a step takes one.
FairSpec == Spec /\ WF_vars(Next)

\* ------------------------------------------- one tracker, explicit clock
\* No batch is running; the status message and the tracker's fields belong
\* to the scenario that is.
BatchIdle ==
    /\ urls = <<>>
    /\ retries = 0
    /\ pc = "idle"
    /\ dirExists = FALSE
    /\ fs = NoFiles
    /\ session_id = NoSession
    /\ idx = 0
    /\ downloaded = <<>>
    /\ dest_path = NoPath
    /\ attempt = 0
    /\ resp = NoResp
    /\ dl_bytes = 0
    /\ outcome = ""
    /\ file_path = NoPath
    /\ result = NoPath
    /\ cleanupCalls = 0
    /\ rmtreeFailed = FALSE
    /\ dlLog = <<>>
    /\ overOnly = TRUE
    /\ kinds = {}
    /\ results = <<>>
    /\ dlCalls = <<>>
    /\ trProg = <<>>
    /\ terminal = <<>>
    /\ order = <<>>
    /\ sizes = <<>>
    /\ zipEntries = {}
    /\ zipCalls = 0
    /\ keptOriginals = {}
    /\ sent = <<>>
    /\ raised = ""

\* The batch variables a tracker scenario leaves alone.
idleVars == <<urls, retries, pc, dirExists, fs, session_id, idx, downloaded, dest_path,
              attempt, resp, dl_bytes, outcome, file_path, result, cleanupCalls,
              rmtreeFailed, dlLog, overOnly, kinds, results, dlCalls, zipEntries, zipCalls,
              keptOriginals, sent, raised, trProg, terminal, order, sizes>>

\* What a tracker scenario leaves alone.
trackerFrame == <<idleVars, concVars, sanVars>>

\* Mutant: the window one second too short.
ThrottledShortWindow(t, last) == t - last < PROGRESS_UPDATE_INTERVAL - 1

\* now - self._last_update < self.update_interval
Throttled(t, last) == t - last < PROGRESS_UPDATE_INTERVAL

\* One call on the tracker, as logged.
Call(op, t, accepted, rendered) ==
    [op |-> op, t |-> t, accepted |-> accepted, rendered |-> rendered]

\* The tracker has rendered complete or error.
TrackerClosed == \E i \in DOMAIN trCalls : trCalls[i].op # "update"

\* A new ProgressTracker (_last_update = 0.0, _last_text = ""); the clock's
\* first reading is anything from 0 on.
TrackerInit ==
    /\ now \in 0..PROGRESS_UPDATE_INTERVAL
    /\ tr_last_update = 0
    /\ trCalls = <<>>
    /\ trFailed = FALSE
    /\ tr_last_text = NoText
    /\ tr_sent = NoText
    /\ tr_repeat = FALSE
    /\ tr_due = ~Throttled(now, 0)
    /\ lastEdit = "starting"
    /\ BatchIdle
    /\ ConcIdle
    /\ SanIdle

\* Whether the tracker's last call of message.edit_text raised, after a call
\* on the tracker: a call of edit_text returns or raises; without one nothing
\* has changed.
EditOutcomes == IF tr_sent' # tr_sent \/ tr_repeat' # tr_repeat THEN BOOLEAN ELSE {trFailed}

\* The clock moves on by one second.
Tick ==
    /\ now < MaxTime
    /\ now' = now + 1
    /\ tr_due' = ~Throttled(now + 1, tr_last_update)
    /\ UNCHANGED <<tr_last_update, trCalls, trFailed, trText, lastEdit>>
    /\ UNCHANGED trackerFrame

\* tracker.update(downloaded, total), called by the chunk loop.
TrUpdate ==
    /\ ~TrackerClosed
    /\ Len(trCalls) < MaxCalls
    /\ \E d \in 1..MAX_FILE_SIZE, total \in {0, MAX_FILE_SIZE} :
          LET due == ~Throttled(now, tr_last_update)
          IN  /\ TrackerUpdate(due, d, total)
              /\ tr_last_update' = IF due THEN now ELSE tr_last_update
              /\ trCalls' = Append(trCalls, Call("update", now, due,
                                                 tr_last_text' # tr_last_text))
              /\ trFailed' \in EditOutcomes
    /\ UNCHANGED now
    /\ UNCHANGED trackerFrame

\* tracker.complete() or tracker.error(reason), called once download_file is over.
TrTerminal ==
    /\ ~TrackerClosed
    /\ Len(trCalls) < MaxCalls
    /\ \E text \in {CompleteText, ErrorText} :
          /\ TrackerEdit(text)
          /\ trCalls' = Append(trCalls, Call(text.k, now, TRUE,
                                             tr_last_text' # tr_last_text))
          /\ trFailed' \in EditOutcomes
    /\ UNCHANGED <<now, tr_last_update, tr_due>>
    /\ UNCHANGED trackerFrame

TrackerNext ==
    \/ Tick
    \/ TrUpdate
    \/ TrTerminal

TrackerSpec == TrackerInit /\ [][TrackerNext]_vars

\* ------------------------------------------------ two concurrent batches
\* Each batch is followed from one suspension point to the next; of a
\* download only what it does to the session directory is kept (one attempt,
\* one chunk), and file system faults are left out.
\* What a scenario of concurrent batches leaves alone.
concFrame == <<idleVars, trVars, lastEdit, clockVars, sanVars>>

ConcInit ==
    /\ temp = [d \in {SessionDir(x) : x \in SessionIds} |-> NoDir]
    /\ cpc = [b \in Batches |-> "start"]
    /\ csid = [b \in Batches |-> NoSession]
    /\ cdest = [b \in Batches |-> NoPath]
    /\ cdownloaded = [b \in Batches |-> <<>>]
    /\ cidx = [b \in Batches |-> 0]
    /\ harm = {}
    /\ BatchIdle
    /\ tr_due = FALSE
    /\ tr_last_text = NoText
    /\ tr_sent = NoText
    /\ tr_repeat = FALSE
    /\ lastEdit = "starting"
    /\ ClockIdle
    /\ SanIdle

\* path.mkdir(parents=True, exist_ok=True): what is there stays.
MakeDir(t, d) == [t EXCEPT ![d] = [exists |-> TRUE, files |-> @.files]]

\* cleanup_temp_dir: shutil.rmtree(path) if the path exists.
RemoveDir(t, d) == [t EXCEPT ![d] = NoDir]

SetFiles(t, d, f) == [t EXCEPT ![d] = [exists |-> @.exists, files |-> f]]

\* The session directory of batch b and its files.
Dir(b) == SessionDir(csid[b])

Files(b) == temp[Dir(b)].files

\* Batch b has made its session directory and not yet cleaned up.
Running(b) == cpc[b] \notin {"start", "done"}

\* The other running batches whose session directory is that of batch b.
Sharing(b) == {o \in Batches \ {b} : Running(o) /\ Dir(o) = Dir(b)}

\* What process of batch b returned: the one file, or the archive.
cresult(b) ==
    IF Len(cdownloaded[b]) = 1 THEN cdownloaded[b][1] ELSE ZipPath(csid[b])

\* The files batch b has written and still uses.
Own(b) ==
    IF cpc[b] = "upload" THEN {cresult(b)}
    ELSE Range(cdownloaded[b]) \cup (IF cpc[b] = "stream" THEN {cdest[b]} ELSE {})

\* Batch b does `what` to the paths ps of its directory: harm, if that is
\* the directory of another running batch (for "create", "cleanup") or the
\* paths include a file of such a batch (for the rest).
Harm(b, what, ps) ==
    IF what \in {"create", "cleanup"}
    THEN IF Sharing(b) # {} THEN {what} ELSE {}
    ELSE IF \E o \in Sharing(b) : ps \cap Own(o) # {} THEN {what} ELSE {}

\* process: session_id = uuid4().hex[:8]; temp_dir = get_temp_dir(session_id).
CBegin(b) ==
    /\ cpc[b] = "start"
    /\ \E sid \in SessionIds :
          /\ csid' = [csid EXCEPT ![b] = sid]
          /\ temp' = MakeDir(temp, SessionDir(sid))
    /\ cidx' = [cidx EXCEPT ![b] = 1]
    /\ cpc' = [cpc EXCEPT ![b] = "loop"]
    /\ UNCHANGED <<cdest, cdownloaded, harm>>
    /\ UNCHANGED concFrame

\* download_file up to the request: the file name and the collision loop.
CLoop(b) ==
    /\ cpc[b] = "loop"
    /\ cidx[b] <= ConcUrls
    /\ \E name \in UrlNames :
          cdest' = [cdest EXCEPT ![b] = ChoosePath(name, 0, DOMAIN Files(b))]
    /\ cpc' = [cpc EXCEPT ![b] = "fetch"]
    /\ UNCHANGED <<temp, csid, cdownloaded, cidx, harm>>
    /\ UNCHANGED concFrame

\* The attempt failed: dest_path.unlink(missing_ok=True), None is returned
\* and the loop of process goes on.
CFailed(b) ==
    /\ temp' = SetFiles(temp, Dir(b), Unlink(Files(b), cdest[b]))
    /\ harm' = harm \cup (IF cdest[b] \in DOMAIN Files(b)
                          THEN Harm(b, "delete", {cdest[b]}) ELSE {})
    /\ cidx' = [cidx EXCEPT ![b] = @ + 1]
    /\ cdest' = [cdest EXCEPT ![b] = NoPath]
    /\ cpc' = [cpc EXCEPT ![b] = "loop"]
    /\ UNCHANGED <<csid, cdownloaded>>

\* The response has arrived: open(dest_path, "wb"), which raises when the
\* directory is gone; or the request failed.
CFetch(b) ==
    /\ cpc[b] = "fetch"
    /\ \/ /\ temp[Dir(b)].exists
          /\ temp' = SetFiles(temp, Dir(b), OpenForWrite(Files(b), cdest[b]))
          /\ harm' = harm \cup Harm(b, "create", {cdest[b]})
                          \cup Harm(b, "overwrite", {cdest[b]})
          /\ cpc' = [cpc EXCEPT ![b] = "stream"]
          /\ UNCHANGED <<csid, cdest, cdownloaded, cidx>>
       \/ CFailed(b)
    /\ UNCHANGED concFrame

\* The chunk loop: a chunk is written (to the open file, be it still in the
\* directory or not); or the body has ended and the path is returned and
\* appended to `downloaded`; or the stream raises.
CStream(b) ==
    /\ cpc[b] = "stream"
    /\ \/ /\ cdest[b] \in DOMAIN Files(b)
          /\ Files(b)[cdest[b]] < CHUNK_SIZE
          /\ temp' = SetFiles(temp, Dir(b), AfterWrite(Files(b), cdest[b], CHUNK_SIZE))
          /\ UNCHANGED <<cpc, csid, cdest, cdownloaded, cidx, harm>>
       \/ /\ cdownloaded' = [cdownloaded EXCEPT ![b] = Append(@, cdest[b])]
          /\ cidx' = [cidx EXCEPT ![b] = @ + 1]
          /\ cdest' = [cdest EXCEPT ![b] = NoPath]
          /\ cpc' = [cpc EXCEPT ![b] = "loop"]
          /\ UNCHANGED <<temp, csid, harm>>
       \/ CFailed(b)
    /\ UNCHANGED concFrame

\* cleanup_temp_dir(session_id) of batch b, which ends it.
CCleanup(b) ==
    /\ temp' = IF temp[Dir(b)].exists THEN RemoveDir(temp, Dir(b)) ELSE temp
    /\ harm' = harm \cup (IF temp[Dir(b)].exists THEN Harm(b, "cleanup", {}) ELSE {})
    /\ cpc' = [cpc EXCEPT ![b] = "done"]
    /\ UNCHANGED <<csid, cdest, cdownloaded, cidx>>

\* process after the loop: nothing downloaded, one file, or create_zip, which
\* raises when the directory is gone.
CAfterLoop(b) ==
    /\ cpc[b] = "loop"
    /\ cidx[b] > ConcUrls
    /\ IF ResultBranch(Len(cdownloaded[b])) = "single"
       THEN /\ cpc' = [cpc EXCEPT ![b] = "upload"]
            /\ UNCHANGED <<temp, csid, cdest, cdownloaded, cidx, harm>>
       ELSE IF ResultBranch(Len(cdownloaded[b])) = "zip" /\ temp[Dir(b)].exists
       THEN /\ temp' = SetFiles(temp, Dir(b),
                                AfterZip(Files(b), cdownloaded[b], ZipPath(csid[b]), 1, {}))
            /\ harm' = harm \cup Harm(b, "create", {ZipPath(csid[b])})
                            \cup Harm(b, "overwrite", {ZipPath(csid[b])})
                            \cup Harm(b, "archive", ZipContents(cdownloaded[b], Files(b)))
                            \cup Harm(b, "delete", ZipContents(cdownloaded[b], Files(b)))
            /\ cpc' = [cpc EXCEPT ![b] = "upload"]
            /\ UNCHANGED <<csid, cdest, cdownloaded, cidx>>
       ELSE CCleanup(b)
    /\ UNCHANGED concFrame

\* _process_urls after process: the size gate and the upload, however they
\* end, and the finally clause.
CFinish(b) ==
    /\ cpc[b] = "upload"
    /\ CCleanup(b)
    /\ UNCHANGED concFrame

ConcNext ==
    \E b \in Batches :
        \/ CBegin(b)
        \/ CLoop(b)
        \/ CFetch(b)
        \/ CStream(b)
        \/ CAfterLoop(b)
        \/ CFinish(b)

ConcSpec == ConcInit /\ [][ConcNext]_vars

\* -------------------------------------------------------- sanitize_filename
\* A name is a sequence of characters.  Of the characters the function does
\* not single out one stands for all ("a"); "NUL" is the null byte.
SEPARATORS == {"/", "\\"}

RESERVED == {"<", ">", ":", "\"", "|", "?", "*"}

\* The characters of the names given: a separator, the null byte, the dot,
\* the space, a reserved character and an ordinary one.
Chars == {"/", "NUL", ".", " ", "<", "a"}

\* "unnamed_file": a name of ordinary characters, shorter than the limit.
FALLBACK == <<"u">>

\* name.replace("/", "_").replace("\\", "_").replace("\x00", "")
ReplaceSeparators(n) ==
    LET kept == SelectSeq(n, LAMBDA c : c # "NUL")
    IN  [i \in 1..Len(kept) |-> IF kept[i] \in SEPARATORS THEN "_" ELSE kept[i]]

\* name.lstrip(". ")
RECURSIVE LStrip(_)
LStrip(n) == IF n # <<>> /\ Head(n) \in {".", " "} THEN LStrip(Tail(n)) ELSE n

\* re.sub(r'[<>:"|?*]', "_", name)
ReplaceReserved(n) == [i \in 1..Len(n) |-> IF n[i] \in RESERVED THEN "_" ELSE n[i]]

\* Mutant: the leading dots and spaces are stripped before the null bytes
\* are removed.
CleanedStripFirst(n) == ReplaceReserved(ReplaceSeparators(LStrip(n)))

\* The three cleaning steps in the order of the code.
Cleaned(n) == ReplaceReserved(LStrip(ReplaceSeparators(n)))

\* The place of the dot that starts Path(name).suffix: the last dot, unless
\* it is the first or the last character; 0 when the name has no suffix.
SuffixDot(n) ==
    LET dots == {i \in 1..Len(n) : n[i] = "."}
        last == IF dots = {} THEN 0 ELSE CHOOSE i \in dots : \A j \in dots : j <= i
    IN  IF 1 < last /\ last < Len(n) THEN last ELSE 0

\* Path(name).suffix and Path(name).stem of a name without separators.
Suffix(n) == IF SuffixDot(n) = 0 THEN <<>> ELSE SubSeq(n, SuffixDot(n), Len(n))

Stem(n) == IF SuffixDot(n) = 0 THEN n ELSE SubSeq(n, 1, SuffixDot(n) - 1)

\* Path(name).stem[:180] + Path(name).suffix
Truncated(n) == SubSeq(Stem(n), 1, Min(Len(Stem(n)), STEM_KEEP)) \o Suffix(n)

sanitize_filename(n) ==
    LET cleaned == Cleaned(n)
        cut == IF Len(cleaned) > NAME_LIMIT THEN Truncated(cleaned) ELSE cleaned
    IN  IF cut = <<>> THEN FALLBACK ELSE cut

\* The names of up to MaxName characters.
Names == UNION {[1..k -> Chars] : k \in 0..MaxName}

\* What a sanitize_filename scenario leaves alone.
sanFrame == <<batchVars, clockVars, concVars>>

SanInit ==
    /\ fname \in Names
    /\ once = <<>>
    /\ twice = <<>>
    /\ applied = 0
    /\ BatchIdle
    /\ tr_due = FALSE
    /\ tr_last_text = NoText
    /\ tr_sent = NoText
    /\ tr_repeat = FALSE
    /\ lastEdit = "starting"
    /\ ClockIdle
    /\ ConcIdle

\* The function is applied to the name.
SanApply ==
    /\ applied = 0
    /\ once' = sanitize_filename(fname)
    /\ applied' = 1
    /\ UNCHANGED <<fname, twice>>
    /\ UNCHANGED sanFrame

\* The function is applied to its own result.
SanApplyAgain ==
    /\ applied = 1
    /\ twice' = sanitize_filename(once)
    /\ applied' = 2
    /\ UNCHANGED <<fname, once>>
    /\ UNCHANGED sanFrame

SanNext ==
    \/ SanApply
    \/ SanApplyAgain

SanSpec == SanInit /\ [][SanNext]_vars

\* ------------------------------------------------------------------ claims
\* The batch created its session directory (process got past get_temp_dir).
SessionCreated == idx >= 1

\* C1, as claimed: once the batch has completed, whatever its outcome, the
\* session directory does not exist.
C1_DirGoneAfterBatch == pc = "done" => ~dirExists

\* C1, amended: once the batch has completed the session directory does not
\* exist, unless shutil.rmtree raised in cleanup_temp_dir (logged, swallowed).
C1_DirGoneUnlessRmtreeFailed == (pc = "done" /\ ~rmtreeFailed) => ~dirExists

\* C1, witness: a batch with a failed and a successful download whose upload
\* raised has completed, and its directory is gone.
C1_Witness ==
    /\ pc = "done"
    /\ SessionCreated
    /\ ~dirExists
    /\ raised = "after"
    /\ Len(results) = 2
    /\ results[1] = NoPath
    /\ results[2] # NoPath
    /\ Len(sent) = 1

\* C2: cleanup_temp_dir is never called twice in a batch, and a completed
\* batch that created its session directory has called it exactly once.
C2_CleanupExactlyOnce ==
    /\ cleanupCalls <= 1
    /\ (pc = "done" /\ SessionCreated) => cleanupCalls = 1

\* C2, witness: a batch in which process raised has completed with one call.
C2_Witness == pc = "done" /\ raised = "process" /\ cleanupCalls = 1 /\ Len(downloaded) = 2

\* The log of a download_file call with n attempts that all failed: n fetches
\* with a sleep of 2^k seconds after the k-th, none after the last.
ExpectedLog(n) == [i \in 1..(2 * n - 1) |-> IF i % 2 = 1 THEN 0 ELSE Pow2(i \div 2)]

\* C3: when download_file with retries >= 1 has returned and every attempt
\* failed with an exception, it made exactly `retries` fetches, slept 2, 4,
\* ..., 2^(retries-1) seconds between them and not after the last, and
\* returned None.
C3_RetryExhaustion ==
    (pc = "dl_returned" /\ retries >= 1 /\ kinds = {"error"})
        => (file_path = NoPath /\ dlLog = ExpectedLog(retries))

\* C3, witness: three failed attempts with sleeps of 2 and 4 seconds.
C3_Witness ==
    /\ pc = "dl_returned"
    /\ retries = 3
    /\ kinds = {"error"}
    /\ dlLog = <<0, 2, 0, 4, 0>>
    /\ file_path = NoPath

\* C4: (a) when download_file has returned and every response it got had a
\* body above max_size, it returned None and no file is at dest_path;
\* (b) a response with a body of exactly max_size bytes whose Content-Length
\* is absent, understated or correct is not rejected by either size check.
C4_SizeGateExact ==
    /\ (pc = "dl_returned" /\ overOnly) => (file_path = NoPath /\ dest_path \notin DOMAIN fs)
    /\ (resp.status = 200 /\ resp.body = MAX_FILE_SIZE /\ resp.cl <= MAX_FILE_SIZE)
          => outcome \notin {"preflight", "overflow"}

\* C4, witness: every attempt got a body one byte above max_size under an
\* understated Content-Length and was rejected while streaming.
C4_Witness ==
    /\ pc = "dl_returned"
    /\ overOnly
    /\ retries = 2
    /\ kinds = {"overflow"}
    /\ resp.body = MAX_FILE_SIZE + 1
    /\ resp.cl \in 1..MAX_FILE_SIZE
    /\ file_path = NoPath

\* C5: whenever download_file has returned None, no file is at dest_path.
C5_NoPartialFile ==
    (pc = "dl_returned" /\ file_path = NoPath) => dest_path \notin DOMAIN fs

\* C5, witness: None after a mix of failures, the last of them an error
\* raised after a chunk had been written.
C5_Witness ==
    /\ pc = "dl_returned"
    /\ file_path = NoPath
    /\ kinds = {"status", "preflight", "error"}
    /\ outcome = "error"
    /\ dl_bytes \in 1..MAX_FILE_SIZE

\* C6, as claimed: a returned path holds the complete body, and when a
\* Content-Length was declared the bytes written equal it.
C6_WrittenEqualsDeclared ==
    (pc = "dl_returned" /\ file_path # NoPath)
        => /\ fs[file_path] = resp.body
           /\ resp.cl > 0 => fs[file_path] = resp.cl

\* C6, amended: a returned path is dest_path, whose file holds exactly the
\* bytes of the body the last attempt streamed to its end without error, at
\* most max_size of them; the count is not compared with the Content-Length.
C6_ReturnedFileComplete ==
    (pc = "dl_returned" /\ file_path # NoPath)
        => /\ file_path = dest_path
           /\ outcome = "ok"
           /\ file_path \in DOMAIN fs
           /\ fs[file_path] = resp.body
           /\ fs[file_path] <= MAX_FILE_SIZE

\* C6, witness: a path returned by the second attempt, after an attempt that
\* raised, for a body of max_size bytes with a correct Content-Length.
C6_Witness ==
    /\ pc = "dl_returned"
    /\ file_path # NoPath
    /\ attempt = 2
    /\ kinds = {"error", "ok"}
    /\ resp.cl = MAX_FILE_SIZE
    /\ resp.body = MAX_FILE_SIZE

\* The paths download_file returned in this batch.
Successes == Range(results) \ {NoPath}

\* C7, as claimed: when process returns with k >= 2 downloaded files, the
\* result is the archive, its entries are exactly those k files, and none of
\* them exists in the session directory any more.
C7_ArchiveReplacesOriginals ==
    (pc = "pu_result" /\ Len(downloaded) >= 2)
        => /\ result = ZipPath(Sid)
           /\ zipEntries = Successes
           /\ Cardinality(zipEntries) = Len(downloaded)
           /\ \A p \in Successes : p \notin DOMAIN fs

\* C7, amended: as claimed, but an original whose unlink raised in create_zip
\* (logged, swallowed) is still in the session directory.
C7_ArchiveReplacesDeleted ==
    (pc = "pu_result" /\ Len(downloaded) >= 2)
        => /\ result = ZipPath(Sid)
           /\ result \in DOMAIN fs
           /\ zipEntries = Successes
           /\ Cardinality(zipEntries) = Len(downloaded)
           /\ \A p \in Successes : (p \in DOMAIN fs) <=> (p \in keptOriginals)

\* C7, witness: three URLs, the second failed, the other two are archived
\* and gone.
C7_Witness ==
    /\ pc = "pu_result"
    /\ Len(urls) = 3
    /\ results[2] = NoPath
    /\ Len(downloaded) = 2
    /\ result = ZipPath(Sid)
    /\ zipEntries = {downloaded[1], downloaded[2]}
    /\ DOMAIN fs = {ZipPath(Sid)}

\* C8: create_zip is called only with more than one downloaded file; when
\* process returns with exactly one, the result is that file, which exists,
\* and the session directory holds no archive.
C8_SingleFileNoArchive ==
    /\ zipCalls > 0 => Len(downloaded) > 1
    /\ (pc = "pu_result" /\ Len(downloaded) = 1)
          => /\ result = downloaded[1]
             /\ result \in DOMAIN fs
             /\ Successes = {result}
             /\ zipCalls = 0
             /\ ZipPath(Sid) \notin DOMAIN fs

\* C8, witness: of three URLs only the last was downloaded; it is the result.
C8_Witness ==
    /\ pc = "pu_result"
    /\ Len(urls) = 3
    /\ results = <<NoPath, NoPath, result>>
    /\ result # NoPath
    /\ zipCalls = 0

\* The batch is inside a download_file call of the loop.
InDownload == pc \in {"attempt", "stream", "backoff", "exhausted", "dl_returned"}

\* C9: download_file is called once for the URL in turn and every URL before
\* it, whatever was returned for those; when the loop is over it was called
\* exactly once for every URL, and a result process returns is made of the
\* files of the URLs that succeeded.
C9_FailureDoesNotAbort ==
    /\ \A i \in DOMAIN dlCalls : dlCalls[i] <= 1
    /\ InDownload => /\ Len(results) = idx - 1
                     /\ \A i \in DOMAIN dlCalls : dlCalls[i] = IF i <= idx THEN 1 ELSE 0
    /\ ((pc = "loop" /\ idx > Len(urls)) \/ pc = "pu_result")
          => /\ Len(results) = Len(urls)
             /\ \A i \in DOMAIN dlCalls : dlCalls[i] = 1
             /\ Range(downloaded) = Successes
    /\ (pc = "pu_result" /\ result # NoPath)
          => IF result = ZipPath(Sid) THEN zipEntries = Successes ELSE Successes = {result}

\* C9, witness: the first of three downloads returned None, the other two
\* were still made and are the entries of the result.
C9_Witness ==
    /\ pc = "pu_result"
    /\ Len(results) = 3
    /\ results[1] = NoPath
    /\ results[2] # NoPath
    /\ results[3] # NoPath
    /\ result = ZipPath(Sid)
    /\ zipEntries = {results[2], results[3]}

\* C10: no upload is attempted with a file above TELEGRAM_FILE_LIMIT; the
\* batch of such a result never gets to the upload, and once its size was
\* taken it ends with the "too large" report and the session id set, so that
\* the finally clause cleans up.
C10_NoUploadAboveLimit ==
    /\ \A i \in 1..Len(sent) : sent[i].size <= TELEGRAM_FILE_LIMIT
    /\ pc = "upload" => fs[result] <= TELEGRAM_FILE_LIMIT
    /\ (pc = "finally" /\ result \in DOMAIN fs /\ fs[result] > TELEGRAM_FILE_LIMIT)
          => /\ sent = <<>>
             /\ session_id = Sid
             /\ raised = "" => lastEdit = "too_large"
             /\ raised # "" => lastEdit = "error_occurred"
    /\ (pc = "done" /\ lastEdit = "too_large") => (sent = <<>> /\ cleanupCalls = 1)

\* C10, witness: a batch whose archive was above the limit has ended with the
\* "too large" report, no upload and the cleanup done.
C10_Witness ==
    /\ pc = "done"
    /\ lastEdit = "too_large"
    /\ result = ZipPath(Sid)
    /\ sent = <<>>
    /\ cleanupCalls = 1
    /\ ~dirExists

\* The rendered progress edits among the calls i..j of the tracker.
RenderedProgress(i, j) == {k \in i..j : trCalls[k].op = "update" /\ trCalls[k].rendered}

\* C11: an update call made less than update_interval seconds after an
\* accepted update is not accepted and edits nothing; hence among the calls
\* of any stretch shorter than the interval at most one progress edit is
\* rendered.  The tracker's due flag is the clock's comparison.
C11_ThrottleOnePerWindow ==
    /\ tr_due = ~Throttled(now, tr_last_update)
    /\ \A i, j \in DOMAIN trCalls :
          (i < j /\ trCalls[i].op = "update" /\ trCalls[i].accepted
                 /\ trCalls[j].op = "update"
                 /\ trCalls[j].t - trCalls[i].t < PROGRESS_UPDATE_INTERVAL)
             => (~trCalls[j].accepted /\ ~trCalls[j].rendered)
    /\ \A i, j \in DOMAIN trCalls :
          (i <= j /\ trCalls[j].t - trCalls[i].t < PROGRESS_UPDATE_INTERVAL)
             => Cardinality(RenderedProgress(i, j)) <= 1

\* C11, witness: as many update calls as the scenario allows but one, all
\* inside less than one interval, rendered one progress edit; the terminal
\* call that followed was rendered too.
C11_Witness ==
    /\ Len(trCalls) = MaxCalls
    /\ trCalls[MaxCalls].op = "complete"
    /\ trCalls[MaxCalls].rendered
    /\ trCalls[MaxCalls - 1].t - trCalls[1].t < PROGRESS_UPDATE_INTERVAL
    /\ trCalls[MaxCalls - 1].t > trCalls[1].t
    /\ Cardinality(RenderedProgress(1, MaxCalls - 1)) = 1
    /\ trCalls[1].rendered

\* C12: for one download (one tracker across all attempts of download_file)
\* the byte counts of successive rendered progress edits never decrease.
C12_ProgressNonDecreasing == Len(trProg) = 2 => trProg[1] <= trProg[2]

\* Within one attempt the byte counts of successive rendered progress edits
\* grow: only a new attempt, which counts from 0 again, renders a smaller one.
ProgressGrowsWithinAttempt ==
    (Len(trProg) = 2 /\ trProg[1] >= trProg[2]) => attempt > 1

\* The terminal render the loop of process owes a download that returned.
TerminalKind(path) == IF path # NoPath THEN "complete" ELSE "dl_error"

\* C13: every download that has returned got exactly one terminal render,
\* complete for a path and error for None, whatever the throttle state was; a
\* download that has not returned got none, and so whenever the status
\* message shows a progress render, the terminal render of the download in
\* turn has not been made.
C13_OneTerminalRender ==
    /\ \A i \in DOMAIN terminal :
          terminal[i] = IF i <= Len(results) THEN <<TerminalKind(results[i])>> ELSE <<>>
    /\ lastEdit = "progress" => (idx \in DOMAIN terminal /\ terminal[idx] = <<>>)

\* C13, witness: the first download returned None and the second a path,
\* each followed by its terminal render.
C13_Witness ==
    /\ pc = "loop"
    /\ Len(results) = 2
    /\ Len(urls) = 3
    /\ terminal = <<(<<"dl_error">>), (<<"complete">>), (<<>>)>>
    /\ lastEdit = "complete"

\* C14: download_file is called for the URLs in the supplied order, one after
\* the other: the call for the next URL is made only when the call before it
\* has returned, so at most one download of the batch, and with it one
\* tracker editing the status message, is under way at any time.
C14_SequentialInOrder ==
    /\ order = [i \in 1..Len(order) |-> i]
    /\ Len(order) - Len(results) \in {0, 1}
    /\ InDownload => (Len(order) = Len(results) + 1 /\ order[Len(order)] = idx)
    /\ pc = "loop" => (Len(order) = Len(results) /\ idx = Len(order) + 1)

\* C14, witness: the second download is in its second attempt; the first was
\* called before it and has returned, after its own retries and back-off.
C14_Witness ==
    /\ pc = "stream"
    /\ retries = 2
    /\ attempt = 2
    /\ order = <<1, 2>>
    /\ results = <<NoPath>>
    /\ idx = 2

\* The earlier downloads of the batch that were stored under the name of URL i
\* or a suffixed form of it.
SameName(i) ==
    {j \in 1..Len(downloaded) :
        downloaded[j].base = urls[i].base /\ downloaded[j].ext = urls[i].ext}

\* C15: between two downloads the session directory holds exactly the files
\* downloaded so far; a download writes to a path that is none of them, the
\* URL's name with suffix _n when n earlier files carry that name; and as
\* long as the loop runs, every file downloaded earlier is there with the
\* size it had when download_file returned it.
C15_NoCollision ==
    /\ pc = "loop" => DOMAIN fs = Range(downloaded)
    /\ pc \in {"attempt", "stream", "backoff", "exhausted"}
          => /\ dest_path \notin Range(downloaded)
             /\ dest_path = IF SameName(idx) = {} THEN urls[idx]
                            ELSE Candidate(urls[idx], Cardinality(SameName(idx)))
    /\ (pc = "loop" \/ InDownload)
          => \A i \in 1..Len(downloaded) :
                downloaded[i] \in DOMAIN fs /\ fs[downloaded[i]] = sizes[i]
    /\ \A i, j \in 1..Len(downloaded) : i # j => downloaded[i] # downloaded[j]

\* C15, witness: three URLs with the same file name were downloaded to
\* a.mp4, a_1.mp4 and a_2.mp4, each still with its own size.
C15_Witness ==
    /\ pc = "loop"
    /\ urls = <<FileName("a", <<>>, "mp4"), FileName("a", <<>>, "mp4"), FileName("a", <<>>, "mp4")>>
    /\ downloaded = <<FileName("a", <<>>, "mp4"), FileName("a", <<1>>, "mp4"),
                      FileName("a", <<2>>, "mp4")>>
    /\ sizes = <<2, 0, 1>>
    /\ fs[downloaded[1]] = 2
    /\ fs[downloaded[3]] = 1

\* Batch b has its directory and in it every file it has written and uses.
Intact(b) == temp[Dir(b)].exists /\ Own(b) \subseteq DOMAIN Files(b)

\* C16, as claimed: of two batches running concurrently, neither creates,
\* overwrites, archives or deletes a file in the other's session directory
\* or removes it, and each running batch has its directory and its files.
C16_BatchesIsolated ==
    /\ harm = {}
    /\ \A b \in Batches : Running(b) => Intact(b)

\* C16, amended: the same, for batches that drew different session ids;
\* harm is done only between batches with the same id.
C16_IsolatedUnlessSameId ==
    /\ harm # {} => csid[1] = csid[2]
    /\ \A b \in Batches :
          (Running(b) /\ \A o \in Batches \ {b} : csid[o] # csid[b]) => Intact(b)

\* C16, witness: two batches with different ids each downloaded a file of
\* the same name; the first has cleaned up, the second still has its file.
C16_Witness ==
    /\ csid[1] # csid[2]
    /\ cpc[1] = "done"
    /\ cdownloaded[1] = <<FileName("a", <<>>, "mp4")>>
    /\ cpc[2] = "upload"
    /\ cdownloaded[2] = <<FileName("a", <<>>, "mp4")>>
    /\ Files(2)[FileName("a", <<>>, "mp4")] = CHUNK_SIZE
    /\ ~temp[Dir(1)].exists
    /\ harm = {}

\* C17: whatever the name, sanitize_filename returns a name of at most the
\* limit (200) characters; a name cut for being longer is a base of at most
\* 180 characters plus its extension.
C17_LengthWithinLimit ==
    applied >= 1
        => /\ Len(once) <= NAME_LIMIT
           /\ Len(Cleaned(fname)) > NAME_LIMIT
                 => /\ once = Truncated(Cleaned(fname))
                    /\ Len(Stem(once)) <= STEM_KEEP

\* What does hold of the result's length: it is within the limit unless the
\* cleaned name was longer and has an extension longer than the limit less
\* the base kept (20 characters); then it is the base, cut to the characters
\* kept, plus the whole extension.
LengthWithinLimitUnlessLongSuffix ==
    applied >= 1
        => \/ Len(once) <= NAME_LIMIT
           \/ /\ Len(Cleaned(fname)) > NAME_LIMIT
              /\ Len(Suffix(Cleaned(fname))) > NAME_LIMIT - STEM_KEEP
              /\ once = Truncated(Cleaned(fname))

\* C18: sanitize_filename applied to its own result returns that result.
C18_Idempotent == applied = 2 => twice = once

\* C18, witness: a name with a leading dot, a separator, a reserved
\* character and more characters than the limit was cleaned and cut, and the
\* second application changed nothing.
C18_Witness ==
    /\ applied = 2
    /\ fname = <<".", "/", "<", "a", ".", "a">>
    /\ once = <<"_", "_", ".", "a">>
    /\ twice = once

\* Names that sanitize to the fallback are reached as well.
FallbackReached == applied = 2 /\ fname = <<" ", ".", "NUL">> /\ once = FALLBACK /\ twice = FALLBACK

\* The fetches download_file has made for the URL in turn.
Fetches == Cardinality({i \in DOMAIN dlLog : dlLog[i] = 0})

SizeFailures == {"preflight", "overflow"}

\* C19: an attempt rejected by a size check, before or while streaming, uses
\* up its attempt like any other failure: the back-off sleep and a new
\* attempt follow while attempts remain, and giving up comes only after the
\* last; a download whose attempts were all rejected for size has made
\* exactly `retries` fetches, with the back-off sleeps between them, when
\* download_file returns None.
C19_OversizeRetried ==
    /\ (retries >= 1 /\ pc \in {"stream", "backoff", "exhausted"}) => Fetches = attempt
    /\ (pc = "backoff" /\ outcome \in SizeFailures) => attempt < retries
    /\ (pc = "exhausted" /\ outcome \in SizeFailures) => attempt = retries
    /\ (pc = "dl_returned" /\ kinds # {} /\ kinds \subseteq SizeFailures)
          => (file_path = NoPath /\ Fetches = retries /\ dlLog = ExpectedLog(retries))

\* C19, witness: three attempts, rejected before streaming and while
\* streaming, with sleeps of 2 and 4 seconds between them; None is returned.
C19_Witness ==
    /\ pc = "dl_returned"
    /\ retries = 3
    /\ kinds = SizeFailures
    /\ outcome = "preflight"
    /\ dlLog = <<0, 2, 0, 4, 0>>
    /\ file_path = NoPath

\* C20: every batch, given that each of its awaits ends, comes to the end of
\* _process_urls, with cleanup_temp_dir called if it had made a session
\* directory.
C20_BatchTerminates == <>(pc = "done" /\ (SessionCreated => cleanupCalls = 1))

\* C20, witness: a batch that retried, and took the collision loop for its
\* second file, has ended with the cleanup done.
C20_Witness ==
    /\ pc = "done"
    /\ retries = 2
    /\ downloaded = <<FileName("b", <<>>, "pdf"), FileName("b", <<1>>, "pdf")>>
    /\ cleanupCalls = 1
    /\ lastEdit = "done"

\* The messages that end a batch: sent, no files downloaded, result too
\* large, nothing supported, an error occurred.
FinalEdits == {"done", "no_files", "too_large", "no_supported", "error_occurred"}

\* C21: when _process_urls is left, by whichever path, the last edit
\* attempted on the status message is one of the messages that end a batch;
\* and once such a message has been attempted no other edit (progress,
\* per-download or any other) is attempted on the status message.
C21_LastEditFinal ==
    /\ [](pc = "done" => lastEdit \in FinalEdits)
    /\ [][(lastEdit \in FinalEdits) => (lastEdit' = lastEdit)]_vars

\* C21, witness: the only download failed after progress was rendered, its
\* tracker rendered the error, and the batch ended on "No files were
\* downloaded".
C21_Witness ==
    /\ pc = "done"
    /\ lastEdit = "no_files"
    /\ results = <<NoPath>>
    /\ terminal = <<<<"dl_error">>>>
    /\ tr_last_text.k = "dl_error"

\* C22: a ProgressTracker never passes to message.edit_text the text it
\* passed in its previous call: the text a render (progress or terminal) is
\* compared with is that of the tracker's previous attempt, whether that
\* attempt returned or raised, and a render with that text makes no call.
C22_NoRepeatedEdit ==
    /\ ~tr_repeat
    /\ tr_sent = tr_last_text

\* C22, witness: a progress render was passed to the message and the edit
\* raised; an interval later an update with the same numbers passed the
\* throttle and was skipped, making no call.
C22_Witness ==
    /\ trFailed
    /\ Len(trCalls) = 2
    /\ trCalls[1] = Call("update", 3, TRUE, TRUE)
    /\ trCalls[2] = Call("update", 6, TRUE, FALSE)
    /\ tr_sent = ProgressText(1, MAX_FILE_SIZE)
    /\ tr_last_update = 6

\* create_zip was called and raised while writing the archive.
ZipRaised == pc = "proc_except" /\ zipCalls = 1

\* create_zip was called and has returned.
ZipReturned == pc = "pu_result" /\ zipCalls = 1

\* C23, as claimed: if writing the archive fails, create_zip has deleted none
\* of its input files; if create_zip returns, none of its input files exists
\* any more.
C23_OriginalsGoneAfterArchive ==
    /\ ZipRaised => Range(downloaded) \subseteq DOMAIN fs
    /\ ZipReturned => /\ ZipPath(Sid) \in DOMAIN fs
                      /\ Range(downloaded) \cap DOMAIN fs = {}

\* C23, amended: if writing the archive fails, create_zip has deleted none of
\* its input files; if it returns, the archive exists and every input file
\* is gone but for those whose unlink raised: a failed deletion leaves that
\* one file and does not keep the others from being deleted.
C23_OriginalsGoneUnlessUnlinkFailed ==
    /\ ZipRaised => Range(downloaded) \subseteq DOMAIN fs
    /\ ZipReturned => /\ ZipPath(Sid) \in DOMAIN fs
                      /\ Range(downloaded) \cap DOMAIN fs = keptOriginals
                      /\ zipEntries = Range(downloaded)

\* C23, witness: of three archived files the unlink of the second raised;
\* the first and the third are gone, the second and the archive are there.
C23_Witness ==
    /\ ZipReturned
    /\ Len(downloaded) = 3
    /\ keptOriginals = {downloaded[2]}
    /\ DOMAIN fs = {downloaded[2], ZipPath(Sid)}

\* The failure of the archive is reached as well, with the originals in place.
ZipRaisedReached == ZipRaised /\ Len(downloaded) = 3 /\ ZipPath(Sid) \in DOMAIN fs

\* C24: while a download runs its destination file never holds more than
\* max_size bytes: in the chunk loop the file holds exactly the bytes counted,
\* which are at most max_size, so the chunk that takes the count above
\* max_size is not written; and the count the progress callback was last
\* called with, and every count it has rendered, is at most max_size.
C24_WrittenWithinMax ==
    /\ pc = "stream" => /\ dest_path \in DOMAIN fs
                        /\ fs[dest_path] = dl_bytes
                        /\ dl_bytes <= MAX_FILE_SIZE
    /\ (InDownload /\ dest_path \in DOMAIN fs) => fs[dest_path] <= MAX_FILE_SIZE
    /\ \A i \in 1..Len(trProg) : trProg[i] <= MAX_FILE_SIZE
    /\ \A p \in Range(downloaded) : p \in DOMAIN fs => fs[p] <= MAX_FILE_SIZE

\* C24, witness: a body longer than max_size with no declared length; max_size
\* bytes were written and rendered as progress, then the chunk that took the
\* count above max_size was not written and the file was removed.
C24_Witness ==
    /\ pc = "backoff"
    /\ outcome = "overflow"
    /\ resp.cl = 0
    /\ resp.body = MAX_FILE_SIZE + 1
    /\ dl_bytes = MAX_FILE_SIZE + 1
    /\ dest_path \notin DOMAIN fs
    /\ trProg = <<MAX_FILE_SIZE>>

\* The file at the limit, with more of the body to come, is reached as well.
FileAtLimitReached ==
    /\ pc = "stream"
    /\ fs[dest_path] = MAX_FILE_SIZE
    /\ resp.body > MAX_FILE_SIZE

====
